---- MODULE Spec2Model ----
(***************************************************************************)
(* Mancala: the board state machine (board.py), the two game-tree         *)
(* searches built on it (minimax.py) and the environment that plays the   *)
(* searches against an agent (mancala_env.py).                            *)
(*                                                                         *)
(* The board is the Python list `pockets` of length 2*side_size+2, index 0 *)
(* being B's store and index side_size+1 A's store.  Python list indexing  *)
(* is kept as it is: a negative index i with -len <= i < 0 addresses cell  *)
(* len+i, and an index below -len raises IndexError.                       *)
(***************************************************************************)
EXTENDS Integers, Sequences, FiniteSets, TLC

\* Bounds of the model: board configurations and search depths explored.
MaxSide == 3
MaxPieces == 3
\* Most beads a row starts with (side_size * starting_pieces) in a game that
\* is played out in full.
MaxRowBeads == 6
MaxDepth == 3
\* Number of calls explored on the default board, whose game is too long to
\* play out.
MaxDefaultCalls == 2
\* Number of calls of MancalaEnv.step explored on the default board.
MaxDefaultSteps == 1
\* Number of calls of MancalaEnv.reset explored.
MaxResets == 2
\* Longest row, and most beads a row starts with, of a board that is cloned.
MaxCloneSide == 2
MaxCloneRowBeads == 4

\* Board.__init__'s default arguments.
DefaultSide == 6
DefaultPieces == 4

\* The search depth MancalaEnv._select_move_player_B passes.
EnvDepth == 3

Players == {"A", "B"}

VARIABLES
    side_size,        \* Board.side_size
    starting_pieces,  \* Board.starting_pieces
    pockets,          \* Board.pockets, a function on 0..NumPockets-1
    turn,             \* the player the rules give the next move to
    over,             \* a move has returned endgame=True
    legal,            \* every call so far was a move by the rules
    ncalls,           \* calls made so far on the default board (stays 0
                      \* on the boards that are played out in full)
    last,             \* what the latest call of Board.move did
    b2,               \* the Board made by b2 = b1.clone(), b1 being the
                      \* board of the variables above; with it, the
                      \* position it was cloned at (origin), its player to
                      \* move and the number of moves made on it
    env               \* the MancalaEnv built around the board

vars == <<side_size, starting_pieces, pockets, turn, over, legal, ncalls,
          last, b2, env>>

----------------------------------------------------------------------------
\* Board.__init__

NumPockets == 2 * side_size + 2

storeA_idx == side_size + 1

storeB_idx == 0

InitialPockets(ss, sp) ==
    [pocket \in 0..(2 * ss + 1) |->
        IF pocket \notin {ss + 1, 0} THEN sp ELSE 0]

\* Python list indexing: the cell a (possibly negative) index addresses.
PyIndex(i) == IF i < 0 THEN i + NumPockets ELSE i

\* sum(pk[lo..hi])
RECURSIVE SumRange(_, _, _)
SumRange(pk, lo, hi) ==
    IF lo > hi THEN 0 ELSE pk[lo] + SumRange(pk, lo + 1, hi)

Other(player) == IF player = "B" THEN "A" ELSE "B"

\* sum(get_pocket_values(player)): the slice [1:storeA_idx] for A and
\* [storeA_idx+1:] for B.
get_pocket_values_sum(pk, player) ==
    IF player = "A"
    THEN SumRange(pk, storeB_idx + 1, storeA_idx - 1)
    ELSE SumRange(pk, storeA_idx + 1, NumPockets - 1)

get_player_score(pk, player) ==
    IF player = "A" THEN pk[storeA_idx] ELSE pk[storeB_idx]

\* Board._valid_pocket: "valid", "invalid", or the IndexError that
\* self.pockets[pocket] raises for an index below -len.
valid_pocket(pk, pocket, player) ==
    IF \/ (player = "B" /\ 0 < pocket /\ pocket <= side_size)
       \/ (player = "A" /\ side_size + 1 < pocket /\ pocket < NumPockets)
       \/ pocket = storeA_idx
       \/ pocket = storeB_idx
       \/ pocket >= NumPockets
    THEN "invalid"
    ELSE IF pocket < -NumPockets
    THEN "index_error"
    ELSE IF pk[PyIndex(pocket)] = 0
    THEN "invalid"
    ELSE "valid"

\* The while loop skipping the opponent's store for the last bead only: a
\* bead passing over that store is dropped into it.
RECURSIVE distribute_loop_noskip(_, _, _, _)
distribute_loop_noskip(pk, current_index, beads, player) ==
    IF beads > 0
    THEN LET nxt == (current_index + 1) % NumPockets
             skip == /\ beads = 1
                     /\ \/ player = "A" /\ nxt = storeB_idx
                        \/ player = "B" /\ nxt = storeA_idx
         IN  IF skip
             THEN distribute_loop_noskip(pk, nxt, beads, player)
             ELSE distribute_loop_noskip([pk EXCEPT ![nxt] = @ + 1], nxt,
                                         beads - 1, player)
    ELSE [pockets |-> pk, final |-> current_index]

\* The while loop of Board._distribute_beads.
RECURSIVE distribute_loop(_, _, _, _)
distribute_loop(pk, current_index, beads, player) ==
    IF beads > 0
    THEN LET nxt == (current_index + 1) % NumPockets
         IN  IF \/ (player = "A" /\ nxt # storeB_idx)
                \/ (player = "B" /\ nxt # storeA_idx)
             THEN distribute_loop([pk EXCEPT ![nxt] = @ + 1], nxt,
                                  beads - 1, player)
             ELSE distribute_loop(pk, nxt, beads, player)
    ELSE [pockets |-> pk, final |-> current_index]

\* Board._distribute_beads without `self.pockets[start_index] = 0`.
distribute_beads_kept(pk, start_index, player) ==
    distribute_loop(pk, start_index, pk[PyIndex(start_index)], player)

\* Board._distribute_beads
distribute_beads(pk, start_index, player) ==
    distribute_loop([pk EXCEPT ![PyIndex(start_index)] = 0], start_index,
                    pk[PyIndex(start_index)], player)

\* The extra-turn test with the two stores exchanged.
extra_turn_swapped(final_pocket, player) ==
    \/ (player = "A" /\ final_pocket = storeB_idx)
    \/ (player = "B" /\ final_pocket = storeA_idx)

\* The extra-turn test of Board.move.
extra_turn_of(final_pocket, player) ==
    \/ (player = "A" /\ final_pocket = storeA_idx)
    \/ (player = "B" /\ final_pocket = storeB_idx)

\* The range test that guards the capture in Board.move.
capture_range(final_pocket, player) ==
    \/ (player = "A" /\ 0 <= final_pocket /\ final_pocket < side_size + 1)
    \/ (player = "B" /\ side_size + 2 <= final_pocket
                     /\ final_pocket < NumPockets - 1)

opposite_index(final_pocket) == 2 * (side_size + 1) - final_pocket

\* The capture step with `=` in place of `+=` on the store.
capture_overwrite(pk, final_pocket, player) ==
    IF capture_range(final_pocket, player) /\ pk[final_pocket] = 1
    THEN LET opp == opposite_index(final_pocket)
             captured_beads == pk[opp] + 1
             store_index == IF player = "A" THEN storeA_idx ELSE storeB_idx
             pk1 == [pk EXCEPT ![opp] = 0]
             pk2 == [pk1 EXCEPT ![final_pocket] = 0]
         IN  [pk2 EXCEPT ![store_index] = captured_beads]
    ELSE pk

\* The capture step of Board.move.
capture(pk, final_pocket, player) ==
    IF capture_range(final_pocket, player) /\ pk[final_pocket] = 1
    THEN LET opp == opposite_index(final_pocket)
             captured_beads == pk[opp] + 1
             store_index == IF player = "A" THEN storeA_idx ELSE storeB_idx
             pk1 == [pk EXCEPT ![opp] = 0]
             pk2 == [pk1 EXCEPT ![final_pocket] = 0]
         IN  [pk2 EXCEPT ![store_index] = @ + captured_beads]
    ELSE pk

\* The game-ending test with `and` in place of `or`.
endgame_both(pk) ==
    /\ get_pocket_values_sum(pk, "A") = 0
    /\ get_pocket_values_sum(pk, "B") = 0

\* The game-ending test of Board.move.
endgame_of(pk) ==
    \/ get_pocket_values_sum(pk, "A") = 0
    \/ get_pocket_values_sum(pk, "B") = 0

\* The sweep of Board.move: both stores grow by their row's sum.
sweep(pk) ==
    LET pk1 == [pk EXCEPT ![storeA_idx] = @ + get_pocket_values_sum(pk, "A")]
    IN  [pk1 EXCEPT ![storeB_idx] = @ + get_pocket_values_sum(pk1, "B")]

\* Board.move raising after it has already taken the beads out of the pocket.
raise_move_emptied(pk, pocket, player, status) ==
    LET start_index == IF player = "A" THEN pocket
                       ELSE pocket + side_size + 1
        emptied == IF -NumPockets <= start_index /\ start_index < NumPockets
                   THEN [pk EXCEPT ![PyIndex(start_index)] = 0] ELSE pk
    IN  [status |-> status, pocket |-> pocket, player |-> player,
         pre |-> pk, dist |-> pk, cap |-> pk, pockets |-> emptied,
         start |-> 0, beads |-> 0, final |-> 0,
         extra_turn |-> FALSE, endgame |-> FALSE]

\* What Board.move leaves behind when it raises.
raise_move(pk, pocket, player, status) ==
    [status |-> status, pocket |-> pocket, player |-> player,
     pre |-> pk, dist |-> pk, cap |-> pk, pockets |-> pk,
     start |-> 0, beads |-> 0, final |-> 0,
     extra_turn |-> FALSE, endgame |-> FALSE]

\* Board.move: the board it leaves, what it returns, and the boards after
\* distribution (dist) and after the capture step (cap).
move(pk, pocket, player) ==
    LET start_index == IF player = "A" THEN pocket
                       ELSE pocket + side_size + 1
        v == valid_pocket(pk, start_index, player)
    IN  IF v = "index_error"
        THEN raise_move(pk, pocket, player, "IndexError")
        ELSE IF v = "invalid"
        THEN raise_move(pk, pocket, player, "ValueError")
        ELSE LET d == distribute_beads(pk, start_index, player)
                 c == capture(d.pockets, d.final, player)
                 endgame == endgame_of(c)
             IN  [status |-> "ok", pocket |-> pocket, player |-> player,
                  pre |-> pk, dist |-> d.pockets, cap |-> c,
                  pockets |-> IF endgame THEN sweep(c) ELSE c,
                  start |-> PyIndex(start_index),
                  beads |-> pk[PyIndex(start_index)],
                  final |-> d.final,
                  extra_turn |-> extra_turn_of(d.final, player),
                  endgame |-> endgame]

\* A shallow copy in place of Board.clone: a new Board whose pockets
\* attribute is the very list of the board it was copied from.
clone_shallow(pk) == [shared |-> TRUE, pockets |-> pk]

\* Board.clone: copy.deepcopy gives a new Board with a new pockets list of
\* equal contents; side_size, starting_pieces and the store indexes are
\* integers and are equal in both.  `shared` tells whether the pockets list
\* of the copy is the list of the original.
clone(pk) == [shared |-> FALSE, pockets |-> pk]

\* Board.get_possible_moves, the list built by its loops.
RECURSIVE possible_moves_loop(_, _, _, _)
possible_moves_loop(pk, pocket, end_idx, offset) ==
    IF pocket > end_idx THEN <<>>
    ELSE (IF pk[pocket] > 0 THEN <<pocket - offset>> ELSE <<>>)
         \o possible_moves_loop(pk, pocket + 1, end_idx, offset)

\* Board.get_possible_moves without the normalisation of B's pockets.
get_possible_moves_raw(pk, player) ==
    IF player = "A"
    THEN possible_moves_loop(pk, 1, side_size, 0)
    ELSE possible_moves_loop(pk, storeA_idx + 1, storeA_idx + side_size, 0)

get_possible_moves(pk, player) ==
    IF player = "A"
    THEN possible_moves_loop(pk, 1, side_size, 0)
    ELSE possible_moves_loop(pk, storeA_idx + 1, storeA_idx + side_size,
                             storeA_idx)

----------------------------------------------------------------------------
\* minimax.py.  A search value is a pair <<k, v>>: <<0, v>> is the number
\* v, <<-1, 0>> is float("-inf") and <<1, 0>> is float("inf").

NegInf == <<-1, 0>>

PosInf == <<1, 0>>

Num(v) == <<0, v>>

\* a < b on search values
Lt(a, b) == a[1] < b[1] \/ (a[1] = b[1] /\ a[2] < b[2])

\* max(a, b) and min(a, b) as Python computes them: the first argument
\* unless the second is greater (smaller).
PyMax(a, b) == IF Lt(a, b) THEN b ELSE a

PyMin(a, b) == IF Lt(b, a) THEN b ELSE a

\* The move component None.
None == 0

evaluate(pk, maximizing_player) ==
    IF maximizing_player = "A"
    THEN get_player_score(pk, "A") - get_player_score(pk, "B")
    ELSE get_player_score(pk, "B") - get_player_score(pk, "A")

\* The player who moves after a move by `player`.
next_player(player, extra_turn) ==
    IF extra_turn THEN player ELSE Other(player)

\* A call that raised; pk is what the list of the board it was given holds.
Raised(status, pk) ==
    [status |-> status, val |-> Num(0), move |-> None, board |-> pk]

\* The first two lines of a search loop's body: board.clone() and the move
\* played on the clone.  `shared` tells whether the clone's list is the
\* list of the board it was cloned from.
child_board(pk, mv, current_player) ==
    LET cb == clone(pk)
    IN  [shared |-> cb.shared, r |-> move(cb.pockets, mv, current_player)]

\* What the list of the searched board holds once the child call has
\* returned `child`.
board_after(pk, cb, child) == IF cb.shared THEN child.board ELSE pk

RECURSIVE minimax(_, _, _, _, _)
RECURSIVE minimax_loop(_, _, _, _, _, _, _, _)

\* The recursive call of minimax on a child board.
minimax_child(cb, maximizing_player, current_player, depth) ==
    minimax(cb.r.pockets, maximizing_player,
            next_player(current_player, cb.r.extra_turn), depth - 1,
            cb.r.endgame)

\* The for loop of minimax from the i-th move on.  A result carries, next
\* to the returned pair, what the list of the board it was given holds at
\* the return.
minimax_loop(pk, maximizing_player, current_player, depth, moves, i, best_val, best_move) ==
    IF i > Len(moves)
    THEN [status |-> "ok", val |-> best_val, move |-> best_move,
          board |-> pk]
    ELSE LET cb == child_board(pk, moves[i], current_player)
             child == minimax_child(cb, maximizing_player, current_player,
                                    depth)
             pk2 == board_after(pk, cb, child)
         IN  IF cb.r.status # "ok"
             THEN Raised(cb.r.status,
                         board_after(pk, cb, [board |-> cb.r.pockets]))
             ELSE IF child.status # "ok" THEN Raised(child.status, pk2)
             ELSE IF maximizing_player = current_player
             THEN LET eval_val == PyMax(best_val, child.val)
                  IN  IF Lt(best_val, eval_val)
                      THEN minimax_loop(pk2, maximizing_player,
                                        current_player, depth, moves, i + 1,
                                        eval_val, moves[i])
                      ELSE minimax_loop(pk2, maximizing_player,
                                        current_player, depth, moves, i + 1,
                                        best_val, best_move)
             ELSE minimax_loop(pk2, maximizing_player, current_player, depth,
                               moves, i + 1, PyMin(best_val, child.val),
                               best_move)

minimax(pk, maximizing_player, current_player, depth, game_over) ==
    IF depth = 0 \/ game_over
    THEN [status |-> "ok", val |-> Num(evaluate(pk, maximizing_player)),
          move |-> None, board |-> pk]
    ELSE LET moves == get_possible_moves(pk, current_player)
         IN  IF Len(moves) = 0 THEN Raised("IndexError", pk)
             ELSE minimax_loop(pk, maximizing_player, current_player, depth,
                               moves, 1,
                               IF maximizing_player = current_player
                               THEN NegInf ELSE PosInf,
                               moves[1])

RECURSIVE minimax_alpha_beta(_, _, _, _, _, _, _, _)
RECURSIVE alpha_beta_max_loop(_, _, _, _, _, _, _, _, _, _)
RECURSIVE alpha_beta_min_loop(_, _, _, _, _, _, _, _, _, _)

\* The recursive call of minimax_alpha_beta on a child board: it passes
\* neither game_over nor is_top_level, which take their defaults.
alpha_beta_child(cb, maximizing_player, current_player, depth, alpha, beta) ==
    minimax_alpha_beta(cb.r.pockets, maximizing_player,
                       next_player(current_player, cb.r.extra_turn),
                       depth - 1, alpha, beta, FALSE, FALSE)

\* The for loop of the maximizing branch from the i-th move on.
alpha_beta_max_loop(pk, maximizing_player, current_player, depth, alpha, beta, is_top_level, moves, i, best) ==
    IF i > Len(moves) THEN [best EXCEPT !.board = pk]
    ELSE LET cb == child_board(pk, moves[i], current_player)
             child == alpha_beta_child(cb, maximizing_player, current_player,
                                       depth, alpha, beta)
             pk2 == board_after(pk, cb, child)
             better == Lt(best.val, child.val)
             best_val == IF better THEN child.val ELSE best.val
             best_move == IF better
                          THEN (IF is_top_level THEN moves[i] ELSE None)
                          ELSE best.move
             new_best == [status |-> "ok", val |-> best_val,
                          move |-> best_move, board |-> pk2]
         IN  IF cb.r.status # "ok"
             THEN Raised(cb.r.status,
                         board_after(pk, cb, [board |-> cb.r.pockets]))
             ELSE IF child.status # "ok" THEN Raised(child.status, pk2)
             ELSE IF ~Lt(best_val, beta) THEN new_best
             ELSE alpha_beta_max_loop(pk2, maximizing_player, current_player,
                                      depth, PyMax(alpha, best_val), beta,
                                      is_top_level, moves, i + 1, new_best)

\* The for loop of the minimizing branch from the i-th move on.
alpha_beta_min_loop(pk, maximizing_player, current_player, depth, alpha, beta, is_top_level, moves, i, best) ==
    IF i > Len(moves) THEN [best EXCEPT !.board = pk]
    ELSE LET cb == child_board(pk, moves[i], current_player)
             child == alpha_beta_child(cb, maximizing_player, current_player,
                                       depth, alpha, beta)
             pk2 == board_after(pk, cb, child)
             better == Lt(child.val, best.val)
             best_val == IF better THEN child.val ELSE best.val
             best_move == IF better
                          THEN (IF is_top_level THEN moves[i] ELSE None)
                          ELSE best.move
             new_best == [status |-> "ok", val |-> best_val,
                          move |-> best_move, board |-> pk2]
         IN  IF cb.r.status # "ok"
             THEN Raised(cb.r.status,
                         board_after(pk, cb, [board |-> cb.r.pockets]))
             ELSE IF child.status # "ok" THEN Raised(child.status, pk2)
             ELSE IF ~Lt(alpha, best_val) THEN new_best
             ELSE alpha_beta_min_loop(pk2, maximizing_player, current_player,
                                      depth, alpha, PyMin(beta, best_val),
                                      is_top_level, moves, i + 1, new_best)

minimax_alpha_beta(pk, maximizing_player, current_player, depth, alpha, beta, game_over, is_top_level) ==
    IF depth = 0 \/ game_over
    THEN [status |-> "ok", val |-> Num(evaluate(pk, maximizing_player)),
          move |-> None, board |-> pk]
    ELSE LET moves == get_possible_moves(pk, current_player)
             best_move == IF Len(moves) > 0 THEN moves[1] ELSE None
         IN  IF maximizing_player = current_player
             THEN alpha_beta_max_loop(pk, maximizing_player, current_player,
                      depth, alpha, beta, is_top_level, moves, 1,
                      [status |-> "ok", val |-> NegInf, move |-> best_move,
                       board |-> pk])
             ELSE alpha_beta_min_loop(pk, maximizing_player, current_player,
                      depth, alpha, beta, is_top_level, moves, 1,
                      [status |-> "ok", val |-> PosInf, move |-> best_move,
                       board |-> pk])

----------------------------------------------------------------------------
\* The state machine: a board and the calls of Board.move made on it.

\* Pocket numbers a caller may pass: every number of 1..side_size, and the
\* numbers around it down to where list indexing itself fails.
PocketInputs == (-(2 * side_size + 3))..(side_size + 2)

\* The pocket numbers of a player's row in the player-facing numbering.
RowPockets == 1..side_size

NoCall ==
    [status |-> "none", pocket |-> 0, player |-> "A",
     pre |-> pockets, dist |-> pockets, cap |-> pockets, pockets |-> pockets,
     start |-> 0, beads |-> 0, final |-> 0,
     extra_turn |-> FALSE, endgame |-> FALSE]

\* The boards a game starts from: the small ones, played out in full, and
\* the default one.
SmallConfigs ==
    {c \in (1..MaxSide) \X (1..MaxPieces) : c[1] * c[2] <= MaxRowBeads}

Configs == SmallConfigs \cup {<<DefaultSide, DefaultPieces>>}

\* The game on this board is explored to its end.
PlayedOut == <<side_size, starting_pieces>> \in SmallConfigs

\* No clone has been made.
NoClone ==
    [exists |-> FALSE, shared |-> FALSE, pockets |-> <<>>, side_size |-> 0,
     starting_pieces |-> 0, turn |-> "A", over |-> FALSE, calls |-> 0,
     origin |-> <<>>]

\* The board is used without a MancalaEnv.
NoEnv ==
    [pc |-> "none", use_alpha_beta |-> FALSE, stochastic_oppenent |-> FALSE,
     b_moves |-> 0, side_size |-> 0, starting_pieces |-> 0, resets |-> 0]

\* Board(side_size, starting_pieces), with A to move first.
BoardInit ==
    /\ \E c \in Configs : side_size = c[1] /\ starting_pieces = c[2]
    /\ ncalls = 0
    /\ pockets = InitialPockets(side_size, starting_pieces)
    /\ turn = "A"
    /\ over = FALSE
    /\ legal = TRUE
    /\ last = NoCall
    /\ b2 = NoClone

Init == BoardInit /\ env = NoEnv

\* A call by the rules: the player to move plays a pocket of the row.
ByRules(pocket, player) == player = turn /\ pocket \in RowPockets

\* A run goes on while the game has not ended and every call was a move by
\* the rules that returned.  A call that raised ends the run (no caller
\* catches the exception), and a call that departs from the rules (the
\* other player, or a pocket number outside the row) is explored as the
\* last call of a run.
Running ==
    /\ ~over /\ legal /\ last.status \in {"none", "ok"}
    /\ ~PlayedOut => ncalls < MaxDefaultCalls

\* One call of Board.move(pocket, player).
Move(pocket, player) ==
    /\ Running
    /\ LET r == move(pockets, pocket, player)
       IN  /\ last' = r
           /\ pockets' = r.pockets
           /\ legal' = ByRules(pocket, player)
           /\ ncalls' = IF PlayedOut THEN ncalls ELSE ncalls + 1
           /\ IF r.status = "ok"
              THEN /\ over' = r.endgame
                   /\ turn' = next_player(player, r.extra_turn)
              ELSE UNCHANGED <<over, turn>>
    /\ UNCHANGED <<side_size, starting_pieces, b2, env>>

\* Any caller of the board: either player, any pocket number.
Next == \E pocket \in PocketInputs, player \in Players : Move(pocket, player)

Spec == Init /\ [][Next]_vars

\* A game played by the rules only.
Play(pocket) == ByRules(pocket, turn) /\ Move(pocket, turn)

PlayNext == \E pocket \in PocketInputs : Play(pocket)

PlaySpec == Init /\ [][PlayNext]_vars

\* A legal move: the player to move plays a nonempty pocket of the row.
LegalMove(pocket) ==
    /\ pocket \in {get_possible_moves(pockets, turn)[k] :
                      k \in 1..Len(get_possible_moves(pockets, turn))}
    /\ Play(pocket)

LegalNext == \E pocket \in PocketInputs : LegalMove(pocket)

\* A game of legal moves only, which goes on as long as the player to move
\* has a legal move: nothing but the end of the game stops the players.
GameSpec == Init /\ [][LegalNext]_vars /\ WF_vars(LegalNext)

----------------------------------------------------------------------------
\* The state machine of a board and its clone: b1 is played by the rules,
\* b2 = b1.clone() is made once at any point of the game, and from then on
\* both boards are played by the rules, each from the position it is in.

\* The boards cloned: those small enough for every pair of positions of
\* the two boards to be explored.
CloneConfigs ==
    {c \in SmallConfigs :
        c[1] <= MaxCloneSide /\ c[1] * c[2] <= MaxCloneRowBeads}

\* What the pockets list of b2 holds: its own list, or the list of b1 if
\* the two boards share one.
ClonePockets == IF b2.shared THEN pockets ELSE b2.pockets

\* b2 = b1.clone().
Clone ==
    /\ ~b2.exists
    /\ legal /\ last.status \in {"none", "ok"}
    /\ <<side_size, starting_pieces>> \in CloneConfigs
    /\ LET c == clone(pockets)
       IN  b2' = [exists |-> TRUE, shared |-> c.shared, pockets |-> c.pockets,
                  side_size |-> side_size,
                  starting_pieces |-> starting_pieces,
                  turn |-> turn, over |-> over, calls |-> 0,
                  origin |-> pockets]
    /\ UNCHANGED <<side_size, starting_pieces, pockets, turn, over, legal,
                   ncalls, last, env>>

\* b2.move(pocket, b2's player to move), a move by the rules.  The move
\* writes into the list b2.pockets refers to.
MoveClone(pocket) ==
    /\ b2.exists /\ ~b2.over
    /\ pocket \in 1..b2.side_size
    /\ LET r == move(ClonePockets, pocket, b2.turn)
       IN  /\ r.status = "ok"
           /\ b2' = [b2 EXCEPT !.pockets = IF b2.shared THEN @ ELSE r.pockets,
                               !.turn = next_player(b2.turn, r.extra_turn),
                               !.over = r.endgame,
                               !.calls = @ + 1]
           /\ pockets' = IF b2.shared THEN r.pockets ELSE pockets
    /\ UNCHANGED <<side_size, starting_pieces, turn, over, legal, ncalls,
                   last, env>>

CloneNext ==
    \/ \E pocket \in PocketInputs : Play(pocket)
    \/ Clone
    \/ \E pocket \in PocketInputs : MoveClone(pocket)

CloneSpec == Init /\ [][CloneNext]_vars

----------------------------------------------------------------------------
\* Properties of Board.move.

AllCells == 0..(NumPockets - 1)

Total == 2 * side_size * starting_pieces

StartIndex(pocket, player) ==
    IF player = "A" THEN pocket ELSE pocket + side_size + 1

\* The latest call was a valid move: a non-empty pocket of the mover's row.
ValidCall == last.status = "ok" /\ last.pocket \in RowPockets

\* C1: after every sequence of valid moves, the move returning endgame=True
\* included, all cells together hold 2*side_size*starting_pieces beads.
BeadConservation ==
    (last.status = "none" \/ ValidCall)
        => SumRange(pockets, 0, NumPockets - 1) = Total

\* C2: after a move that returns endgame=True every non-store pocket is 0
\* and each store has grown by what remained in its owner's row.
EndgameSweep ==
    (ValidCall /\ last.endgame) =>
        /\ \A i \in AllCells \ {storeA_idx, storeB_idx} : pockets[i] = 0
        /\ pockets[storeA_idx]
               = last.cap[storeA_idx] + get_pocket_values_sum(last.cap, "A")
        /\ pockets[storeB_idx]
               = last.cap[storeB_idx] + get_pocket_values_sum(last.cap, "B")
        /\ pockets[storeA_idx] + pockets[storeB_idx] = Total

\* C5: a call with a pocket number outside 1..side_size, or with the number
\* of an empty pocket, is rejected instead of playing a cell.
InvalidPocketRejected ==
    (/\ last.status # "none"
     /\ \/ last.pocket \notin RowPockets
        \/ last.pre[StartIndex(last.pocket, last.player)] = 0)
        => last.status # "ok"

\* C6: when Board.move fails with the invalid-move error, every pocket and
\* both stores hold what they held before the call.
UnchangedOnError ==
    last.status = "ValueError" => pockets = last.pre

\* A call on a board already played on failed with the invalid-move error.
UnchangedOnErrorWitness ==
    /\ last.status = "ValueError"
    /\ last.pre # InitialPockets(side_size, starting_pieces)
    /\ \E i \in AllCells \ {storeA_idx, storeB_idx} : pockets[i] > 0

StoreOf(player) == IF player = "A" THEN storeA_idx ELSE storeB_idx

\* The raw indices of a player's row.
OwnRow(player) ==
    IF player = "A" THEN 1..side_size
    ELSE (side_size + 2)..(2 * side_size + 1)

\* C4: if the last bead of a valid move lands in one of the mover's own
\* pockets, B's last one included, and that pocket then holds exactly 1
\* bead, the pocket and the opposite one are set to 0 and the mover's store
\* grows by opposite_value + 1; otherwise the capture step changes nothing.
CaptureRule ==
    ValidCall =>
        LET f == last.final
            opp == 2 * (side_size + 1) - f
            store == StoreOf(last.player)
        IN  IF f \in OwnRow(last.player) /\ last.dist[f] = 1
            THEN /\ last.cap[f] = 0
                 /\ last.cap[opp] = 0
                 /\ last.cap[store] = last.dist[store] + last.dist[opp] + 1
            ELSE last.cap = last.dist

\* The length of a mover's circuit: every cell but the opponent's store.
CircuitLen == 2 * side_size + 1

\* The cell after cell j on the circuit of `player`.
CircuitNext(j, player) ==
    LET k == (j + 1) % NumPockets
    IN  IF k = StoreOf(Other(player)) THEN (k + 1) % NumPockets ELSE k

\* The cell d steps ahead of cell i on the circuit of `player`.
RECURSIVE Ahead(_, _, _)
Ahead(i, d, player) ==
    IF d = 0 THEN i ELSE CircuitNext(Ahead(i, d - 1, player), player)

\* The 6x4 board after A's opening move from pocket 3.
AfterPocket3 ==
    <<0, 4, 4, 0, 5, 5, 5, 1, 4, 4, 4, 4, 4, 4>>

\* C7: right after the distribution of a valid move from raw index i with b
\* beads, the cell d steps ahead on the mover's circuit (d in 1..n-1,
\* n = 2*side_size+1) has gained floor((b-d)/n)+1 beads if b >= d and none
\* otherwise, the start pocket holds floor(b/n) and the opponent's store is
\* unchanged; on the initial 6x4 board A's pocket 3 gives
\* [0,4,4,0,5,5,5,1,4,4,4,4,4,4], extra_turn=True, endgame=False.
DistributionResult ==
    ValidCall =>
        LET i == last.start
            b == last.beads
            n == CircuitLen
            opp_store == StoreOf(Other(last.player))
        IN  /\ \A d \in 1..(n - 1) :
                   LET c == Ahead(i, d, last.player)
                   IN  last.dist[c] = last.pre[c]
                          + (IF b >= d THEN ((b - d) \div n) + 1 ELSE 0)
            /\ last.dist[i] = b \div n
            /\ last.dist[opp_store] = last.pre[opp_store]
            /\ (/\ side_size = 6 /\ starting_pieces = 4
                /\ last.pre = InitialPockets(6, 4)
                /\ last.pocket = 3 /\ last.player = "A")
                   => /\ \A c \in AllCells : pockets[c] = AfterPocket3[c + 1]
                      /\ last.dist = pockets
                      /\ last.extra_turn /\ ~last.endgame

\* A valid move carried more beads than the circuit has cells, so that some
\* cell gained two.
DistributionResultWitness ==
    /\ ValidCall
    /\ last.beads > CircuitLen
    /\ \E c \in AllCells : last.dist[c] = last.pre[c] + 2

\* C8: a valid move from raw index i with b beads returns extra_turn=True
\* iff its last bead lands in the mover's store, that is iff
\* b mod (2*side_size+1) is the circuit distance from i to that store
\* (side_size+1-i for A, 2*side_size+2-i for B), also when it ends the game.
ExtraTurnRule ==
    ValidCall =>
        LET distance == IF last.player = "A"
                        THEN side_size + 1 - last.start
                        ELSE 2 * side_size + 2 - last.start
        IN  /\ last.extra_turn <=> (last.final = StoreOf(last.player))
            /\ last.extra_turn <=> (last.beads % CircuitLen = distance)

\* A move of B that went round into B's store and ended the game.
ExtraTurnRuleWitness ==
    /\ ValidCall
    /\ last.player = "B"
    /\ last.extra_turn
    /\ last.endgame
    /\ side_size > 1

\* The set of the elements of a sequence.
Range(seq) == {seq[k] : k \in 1..Len(seq)}

\* C9: get_possible_moves(player) lists, ascending and without duplicates,
\* exactly the p in 1..side_size whose pocket in the player's row is
\* non-empty, and Board.move(p, player) succeeds iff p is in that list.
PossibleMoves ==
    \A player \in Players :
        LET moves == get_possible_moves(pockets, player)
        IN  /\ \A k \in 1..(Len(moves) - 1) : moves[k] < moves[k + 1]
            /\ Range(moves)
                 = {p \in RowPockets : pockets[StartIndex(p, player)] > 0}
            /\ \A p \in RowPockets :
                   (move(pockets, p, player).status = "ok")
                       <=> (p \in Range(moves))

\* B's row has an empty first pocket and a non-empty one, and the call that
\* just failed named an empty pocket of the row.
PossibleMovesWitness ==
    /\ last.status = "ValueError"
    /\ last.pocket \in RowPockets
    /\ get_possible_moves(pockets, "B") # <<>>
    /\ get_possible_moves(pockets, "B")[1] # 1
    /\ last.pocket \notin Range(get_possible_moves(pockets, last.player))

\* C10: no valid move by either player makes store A or store B smaller.
StoreMonotonic ==
    [][(last'.status = "ok" /\ last'.pocket \in RowPockets)
          => /\ pockets'[storeA_idx] >= pockets[storeA_idx]
             /\ pockets'[storeB_idx] >= pockets[storeB_idx]]_vars

\* A capture into a store that already held beads.
StoreMonotonicWitness ==
    /\ ValidCall
    /\ last.cap # last.dist
    /\ last.pre[StoreOf(last.player)] > 1
    /\ pockets[StoreOf(last.player)] > last.pre[StoreOf(last.player)] + 1

\* Every pocket of the row of `player` is empty on board pk.
RowEmpty(pk, player) == \A i \in OwnRow(player) : pk[i] = 0

\* C12: Board.move returns endgame=True iff, after distribution and
\* capture, at least one player's row is empty; so after a move returning
\* endgame=False both players have a possible move.
EndgameDetection ==
    last.status = "ok" =>
        /\ last.endgame <=> (RowEmpty(last.cap, "A") \/ RowEmpty(last.cap, "B"))
        /\ ~last.endgame =>
               /\ get_possible_moves(pockets, "A") # <<>>
               /\ get_possible_moves(pockets, "B") # <<>>

\* A move ended the game by emptying one row while the other still held
\* beads.
EndgameDetectionWitness ==
    /\ ValidCall
    /\ last.endgame
    /\ RowEmpty(last.cap, last.player)
    /\ ~RowEmpty(last.cap, Other(last.player))
    /\ side_size > 1

\* C17: a valid move that returns endgame=False leaves the store of the
\* mover's opponent as it was, however many beads it carried.
OpponentStoreUntouched ==
    (ValidCall /\ ~last.endgame) =>
        pockets[StoreOf(Other(last.player))]
            = last.pre[StoreOf(Other(last.player))]

\* The beads of a valid move went past the opponent's store: more beads than
\* the cells from the start pocket to that store on the full ring.
OpponentStoreUntouchedWitness ==
    /\ ValidCall
    /\ ~last.endgame
    /\ last.beads
         >= ((StoreOf(Other(last.player)) - last.start) % NumPockets)
    /\ last.pre[StoreOf(Other(last.player))] > 0

----------------------------------------------------------------------------
\* Properties of the searches.

Depths == 0..MaxDepth

\* C3: on every board reached by legal play on which the game has not
\* ended, minimax and minimax_alpha_beta (alpha=-inf, beta=+inf) return the
\* same best value for every maximizing player, current player and depth.
ValueAgreement ==
    (legal /\ ~over) =>
        \A maximizing_player \in Players, current_player \in Players,
           depth \in Depths :
            minimax(pockets, maximizing_player, current_player, depth,
                    FALSE).val
              = minimax_alpha_beta(pockets, maximizing_player, current_player,
                                   depth, NegInf, PosInf, FALSE, FALSE).val

SearchDepths == 1..MaxDepth

\* The moves of `moves` from the i-th on that end the game when
\* current_player plays them on pk.
EndingMoves(pk, current_player) ==
    {mv \in Range(get_possible_moves(pk, current_player)) :
        child_board(pk, mv, current_player).r.endgame}

\* C13: in both searches, the child reached by a candidate move that
\* returned endgame=True is a leaf: whatever depth remains, its value is
\* evaluate(child_board, maximizing_player).
EndedChildIsLeaf ==
    (legal /\ ~over) =>
        \A maximizing_player \in Players, current_player \in Players,
           depth \in SearchDepths :
            \A mv \in EndingMoves(pockets, current_player) :
                LET cb == child_board(pockets, mv, current_player)
                    leaf == Num(evaluate(cb.r.pockets, maximizing_player))
                IN  /\ minimax_child(cb, maximizing_player, current_player,
                                     depth).val = leaf
                    /\ alpha_beta_child(cb, maximizing_player,
                                        current_player, depth, NegInf,
                                        PosInf).val = leaf

\* C14: started with game_over=False and depth >= 1 on a board reached by
\* legal play whose rows both hold beads, each search returns normally and
\* its value is a finite number.
FiniteValue ==
    (legal /\ ~over) =>
        \A maximizing_player \in Players, current_player \in Players,
           depth \in SearchDepths :
            LET m == minimax(pockets, maximizing_player, current_player,
                             depth, FALSE)
                ab == minimax_alpha_beta(pockets, maximizing_player,
                                         current_player, depth, NegInf,
                                         PosInf, FALSE, FALSE)
            IN  /\ m.status = "ok" /\ m.val[1] = 0
                /\ ab.status = "ok" /\ ab.val[1] = 0

\* The first move of `moves`, from the i-th on, whose child has the value
\* v in minimax; None when there is none.
RECURSIVE EarliestBest(_, _, _, _, _, _, _)
EarliestBest(pk, maximizing_player, current_player, depth, moves, i, v) ==
    IF i > Len(moves) THEN None
    ELSE IF minimax_child(child_board(pk, moves[i], current_player),
                          maximizing_player, current_player, depth).val = v
         THEN moves[i]
         ELSE EarliestBest(pk, maximizing_player, current_player, depth,
                           moves, i + 1, v)

\* C15: at a node with depth >= 1 and no game over, maximizing or
\* minimizing, the move minimax returns is the earliest legal move whose
\* child has the returned best value.
EarliestBestMove ==
    (legal /\ ~over) =>
        \A maximizing_player \in Players, current_player \in Players,
           depth \in SearchDepths :
            LET m == minimax(pockets, maximizing_player, current_player,
                             depth, FALSE)
            IN  m.move = EarliestBest(pockets, maximizing_player,
                             current_player, depth,
                             get_possible_moves(pockets, current_player), 1,
                             m.val)

\* C16: minimax_alpha_beta called with is_top_level=False returns None as
\* its move at every depth; called with is_top_level=True at depth >= 1 for
\* a player who has a legal move, it returns one of that player's possible
\* moves.
AlphaBetaMove ==
    (legal /\ ~over) =>
        \A maximizing_player \in Players, current_player \in Players,
           depth \in Depths :
            /\ minimax_alpha_beta(pockets, maximizing_player, current_player,
                   depth, NegInf, PosInf, FALSE, FALSE).move = None
            /\ depth >= 1 =>
                   minimax_alpha_beta(pockets, maximizing_player,
                       current_player, depth, NegInf, PosInf, FALSE,
                       TRUE).move
                     \in Range(get_possible_moves(pockets, current_player))

\* The depths searched on the board of a state: every depth of Depths on a
\* board that is played out, the depths up to the one MancalaEnv asks for
\* on the default board.
BoardDepths == IF PlayedOut THEN Depths ELSE 0..EnvDepth

\* C18: when minimax or minimax_alpha_beta returns, the pockets list of
\* the board it was given holds what it held at the call: the moves of the
\* search are played on clones only.
SearchLeavesBoard ==
    (legal /\ ~over) =>
        \A maximizing_player \in Players, current_player \in Players,
           depth \in BoardDepths :
            /\ minimax(pockets, maximizing_player, current_player, depth,
                       FALSE).board = pockets
            /\ minimax_alpha_beta(pockets, maximizing_player, current_player,
                   depth, NegInf, PosInf, FALSE, TRUE).board = pockets

\* A search of depth 2 or more was run on a board where the player to move
\* has two moves or more, so that clones were made at two levels.
SearchLeavesBoardWitness ==
    /\ legal /\ ~over
    /\ last.status = "ok"
    /\ MaxDepth >= 2
    /\ Len(get_possible_moves(pockets, turn)) >= 2
    /\ minimax(pockets, turn, turn, MaxDepth, FALSE).status = "ok"
    /\ minimax(pockets, turn, turn, MaxDepth, FALSE).board = pockets

----------------------------------------------------------------------------
\* The state machine of MancalaEnv: step(action) plays A's pocket and then
\* runs the loop of _select_move_player_B, one move of B per iteration.
\* env.pc is where the environment stands: "idle" between two calls of
\* step, "B" at the head of the while loop with its condition true, "done"
\* once step has returned done=True, "raised" once an exception left step.

\* MancalaEnv(side_size, starting_pieces, stochastic_oppenent=...,
\* use_alpha_beta=...) around the board of the state.
\* The record keeps the side_size and starting_pieces the constructor was
\* given, which the object itself passes on to Board and does not store,
\* and counts the calls of reset.
MancalaEnv(stochastic_oppenent, use_alpha_beta) ==
    [pc |-> "idle", use_alpha_beta |-> use_alpha_beta,
     stochastic_oppenent |-> stochastic_oppenent, b_moves |-> 0,
     side_size |-> side_size, starting_pieces |-> starting_pieces,
     resets |-> 0]

EnvInit ==
    /\ BoardInit
    /\ \E stochastic_oppenent \in BOOLEAN, use_alpha_beta \in BOOLEAN :
           env = MancalaEnv(stochastic_oppenent, use_alpha_beta)

\* The actions of env.action_space, Discrete(side_size, start=1).
action_space == 1..side_size

\* opponent_func(self.board, "B", "B", 3, is_top_level=True).
opponent_func(pk, use_alpha_beta) ==
    IF use_alpha_beta
    THEN minimax_alpha_beta(pk, "B", "B", EnvDepth, NegInf, PosInf, FALSE,
                            TRUE)
    ELSE minimax(pk, "B", "B", EnvDepth, FALSE)

\* random.choice(self.board.get_possible_moves("B")): any element, and
\* IndexError on an empty list.
random_choice(pk) ==
    LET moves == get_possible_moves(pk, "B")
    IN  IF moves = <<>>
        THEN {[status |-> "IndexError", move |-> None, board |-> pk]}
        ELSE {[status |-> "ok", move |-> mv, board |-> pk] :
                 mv \in Range(moves)}

\* The ways one iteration of the loop picks best_move: the search, or,
\* with a stochastic opponent, the search or a random choice as
\* random.random() falls.  Each comes with the status of the pick and the
\* list of self.board after it.
select_best_move(pk, stochastic_oppenent, use_alpha_beta) ==
    LET searched == {[status |-> s.status, move |-> s.move,
                      board |-> s.board] :
                        s \in {opponent_func(pk, use_alpha_beta)}}
    IN  IF stochastic_oppenent
        THEN searched \cup random_choice(pk)
        ELSE searched

\* The condition of the while loop, with B's last move ignoring endgame.
loop_again_on_extra(extra_turn, endgame) == extra_turn

\* The condition of the while loop of _select_move_player_B.
loop_again(extra_turn, endgame) == ~endgame /\ extra_turn

\* step(action) up to the loop of B: the validity test, A's move, and the
\* returns taken when the action is invalid, when A's move ended the game
\* and when it gave A an extra turn.
EnvStepA(action) ==
    /\ env.pc = "idle"
    /\ ~PlayedOut => ncalls < MaxDefaultSteps
    /\ ncalls' = IF PlayedOut THEN ncalls ELSE ncalls + 1
    /\ IF valid_pocket(pockets, action, "A") = "valid"
       THEN LET r == move(pockets, action, "A")
            IN  /\ last' = r
                /\ pockets' = r.pockets
                /\ over' = r.endgame
                /\ turn' = next_player("A", r.extra_turn)
                /\ env' = [env EXCEPT
                             !.pc = IF r.status # "ok" THEN "raised"
                                    ELSE IF r.endgame THEN "done"
                                    ELSE IF ~r.extra_turn THEN "B"
                                    ELSE "idle",
                             !.b_moves = 0]
       ELSE /\ env' = [env EXCEPT !.pc = "done", !.b_moves = 0]
            /\ UNCHANGED <<last, pockets, over, turn>>
    /\ UNCHANGED <<side_size, starting_pieces, legal, b2>>

\* One iteration of the while loop: pick best_move, play it for B, test
\* the loop condition; on leaving the loop, step returns.
EnvMoveB ==
    /\ env.pc = "B"
    /\ \E c \in select_best_move(pockets, env.stochastic_oppenent,
                                  env.use_alpha_beta) :
          IF c.status # "ok"
          THEN /\ env' = [env EXCEPT !.pc = "raised"]
               /\ pockets' = c.board
               /\ UNCHANGED <<last, over, turn>>
          ELSE LET r == move(c.board, c.move, "B")
               IN  /\ last' = r
                   /\ pockets' = r.pockets
                   /\ IF r.status # "ok"
                      THEN /\ env' = [env EXCEPT !.pc = "raised"]
                           /\ UNCHANGED <<over, turn>>
                      ELSE /\ over' = r.endgame
                           /\ turn' = next_player("B", r.extra_turn)
                           /\ env' = [env EXCEPT
                                 !.pc = IF loop_again(r.extra_turn,
                                                      r.endgame)
                                        THEN "B"
                                        ELSE IF r.endgame THEN "done"
                                        ELSE "idle",
                                 !.b_moves = @ + 1]
    /\ UNCHANGED <<side_size, starting_pieces, legal, ncalls, b2>>

EnvNext ==
    \/ \E action \in PocketInputs : action \in action_space /\ EnvStepA(action)
    \/ EnvMoveB

\* What an iteration of the while loop does to the control of the
\* environment, whatever move it plays: it counts one more move of B and
\* goes to the head of the loop or to a return of step, or it raises.
LoopIteration ==
    /\ env.pc = "B"
    /\ env' \in {[env EXCEPT !.pc = pc, !.b_moves = @ + 1] :
                   pc \in {"B", "idle", "done"}}
               \cup {[env EXCEPT !.pc = "raised"]}

\* step runs to its return once called: at the head of the loop, with the
\* loop condition true, an iteration is executed.  Every step of EnvMoveB
\* is a LoopIteration step, and EnvMoveB can be taken whenever
\* env.pc = "B".
EnvSpec == EnvInit /\ [][EnvNext]_vars /\ WF_env(LoopIteration)

\* The board reset builds, self.board = Board(): the arguments of Board
\* take their defaults, whatever sizes ss and sp the environment was
\* constructed with.
reset_board(ss, sp) ==
    [side_size |-> DefaultSide, starting_pieces |-> DefaultPieces,
     pockets |-> InitialPockets(DefaultSide, DefaultPieces)]

\* reset(): between two calls of step, or after one that returned
\* done=True, the environment gets a new board and A is to move.
EnvReset ==
    /\ env.pc \in {"idle", "done"}
    /\ env.resets < MaxResets
    /\ LET b == reset_board(env.side_size, env.starting_pieces)
       IN  /\ side_size' = b.side_size
           /\ starting_pieces' = b.starting_pieces
           /\ pockets' = b.pockets
           /\ last' = [NoCall EXCEPT !.pre = b.pockets, !.dist = b.pockets,
                                     !.cap = b.pockets,
                                     !.pockets = b.pockets]
    /\ over' = FALSE
    /\ turn' = "A"
    /\ env' = [env EXCEPT !.pc = "idle", !.b_moves = 0, !.resets = @ + 1]
    /\ UNCHANGED <<legal, ncalls, b2>>

ResetNext == EnvNext \/ EnvReset

\* An environment that is stepped and reset.
ResetSpec == EnvInit /\ [][ResetNext]_vars

----------------------------------------------------------------------------
\* Properties of the clone.

\* C11: right after b2 = b1.clone(), b2 has the pockets (stores included),
\* side_size and starting_pieces of b1; afterwards a move on b2 leaves b1
\* as it was, and a move on b1 leaves b2 as it was.
CloneIsolation ==
    [][/\ (~b2.exists /\ b2'.exists) =>
            /\ ClonePockets' = pockets /\ pockets' = pockets
            /\ b2'.side_size = side_size
            /\ b2'.starting_pieces = starting_pieces
       /\ (b2.exists /\ b2'.calls > b2.calls) =>
            /\ pockets' = pockets
            /\ side_size' = side_size /\ starting_pieces' = starting_pieces
       /\ (b2.exists /\ b2'.calls = b2.calls) =>
            /\ ClonePockets' = ClonePockets
            /\ b2'.side_size = b2.side_size
            /\ b2'.starting_pieces = b2.starting_pieces]_vars

\* After the clone was made in the middle of a game, both boards were
\* moved on and hold different positions.
CloneIsolationWitness ==
    /\ b2.exists
    /\ b2.calls >= 2
    /\ b2.origin # InitialPockets(side_size, starting_pieces)
    /\ pockets # b2.origin
    /\ ClonePockets # b2.origin
    /\ ClonePockets # pockets

----------------------------------------------------------------------------
\* Properties of the environment.

\* The loop of B is entered, or gone round again, exactly after a move that
\* returned normally without ending the game and that was either a move of
\* A without an extra turn or a move of B with one.
BMovesNext ==
    env.pc = "B" <=>
        /\ last.status = "ok"
        /\ ~last.endgame
        /\ \/ last.player = "A" /\ ~last.extra_turn
           \/ last.player = "B" /\ last.extra_turn

\* Every move played for B is a move of a nonempty pocket of B's row that
\* returned normally, and no exception leaves step.
BMovesLegal ==
    /\ env.pc # "raised"
    /\ last.player = "B" =>
           /\ last.status = "ok"
           /\ last.pocket \in RowPockets
           /\ last.beads > 0

\* C19: in MancalaEnv.step, after a valid move by A, B makes no move when
\* that move ended the game or gave A an extra turn; otherwise B moves, and
\* moves again exactly while its previous move returned extra_turn=True and
\* endgame=False; every move played for B is legal and never raises; and
\* the loop terminates.
OpponentTurnLoop ==
    /\ [](BMovesNext /\ BMovesLegal)
    /\ (env.pc = "B") ~> (env.pc # "B")

\* The loop of B has played three moves in one call of step and has been
\* left.
OpponentTurnLoopWitness ==
    /\ env.pc \in {"idle", "done"}
    /\ env.b_moves >= 3
    /\ last.player = "B" /\ last.status = "ok"

----------------------------------------------------------------------------
\* Termination of the game.

\* C20: from the initial board of every size that is played out, every
\* game played by the rules reaches a move that returns endgame=True:
\* there is no infinite sequence of legal moves, no cycle of positions, and
\* no position short of the end where the player to move has no move.
GameTerminates == PlayedOut ~> over

\* A game on a board with rows of several pockets has reached its end by
\* a move that came after an extra turn.
GameTerminatesWitness ==
    /\ over
    /\ PlayedOut
    /\ side_size >= 2 /\ starting_pieces >= 2
    /\ last.endgame
    /\ last.pre # InitialPockets(side_size, starting_pieces)

----------------------------------------------------------------------------
\* Reset of the environment.

\* C21: after MancalaEnv.reset(), whatever was played before, the board of
\* the environment is the initial board for the side_size and
\* starting_pieces the environment was constructed with: 2*side_size+2
\* cells, every pocket of a row holding starting_pieces, both stores 0.
ResetRestoresConfigured ==
    [][env'.resets > env.resets =>
          /\ side_size' = env.side_size
          /\ starting_pieces' = env.starting_pieces
          /\ DOMAIN pockets' = 0..(2 * env.side_size + 1)
          /\ \A i \in DOMAIN pockets' :
                 pockets'[i] = IF i \in {0, env.side_size + 1}
                               THEN 0 ELSE env.starting_pieces]_vars

====
